---- MODULE Spec2Model ----
(***************************************************************************)
(* Watchdog cycle controller of ArduinoWatchdog (src/Watchdog.cpp): the    *)
(* foreground operations Watchdog(), Configure, Sleep, Wait and Reset, the *)
(* interrupt handler ISR(WDT_vect), and the watchdog hardware they drive.  *)
(*                                                                         *)
(* Labels of program positions carry the source line of the statement that *)
(* executes next ("S122" is line 122 of Sleep).                            *)
(*                                                                         *)
(* Time: the shortest period the code ever programs is 1 s (DeterminePeriod*)
(* returns only WDTO_1S..WDTO_8S), so a period that was restarted by       *)
(* wdt_reset() does not run out during the straight-line code that follows.*)
(* A period runs out (Tick) only while the foreground is between two calls *)
(* or halted in sleep_mode(); once it is about to run out (due) the expiry *)
(* may come at any later instant, also between the statements of the next  *)
(* call, until a wdt_reset() restarts the timer.  SpecAnyTime drops this   *)
(* and lets a period run out at any point of the foreground code.          *)
(*                                                                         *)
(* The 64-bit globals are read and written byte by byte on the target.  A  *)
(* statement that accesses one is a single step here: for values below 256 *)
(* (the bound MaxCount keeps the counter there) a handler that runs in the *)
(* middle of such an access leaves what it leaves when it runs just before *)
(* or just after the statement, and every mix of the bytes of two targets  *)
(* of the model compares with such a counter as one of the two does.  The  *)
(* I flag (iflag) tells at each statement whether the handler can run.     *)
(***************************************************************************)
EXTENDS Integers, Sequences, FiniteSets, TLC

\* ------------------------------------------------------------ constants
\* avr/wdt.h timeout codes; the code is the prescaler value WDP3..WDP0 of the
\* table in Configure.
WDTO_1S == 6
WDTO_2S == 7
WDTO_4S == 8
WDTO_8S == 9

\* int is 16 bits on the target: values are kept modulo IntMod
IntMod == 65536

\* ------------------------------------------------------------ bounds
\* the handler fires while the Cycle Counter is below MaxCount
MaxCount == 3
\* the pure-function specification draws requested periods from 0..MaxPeriod
MaxPeriod == 10

\* durations given to Sleep and Wait (seconds)
SleepDurations == {0, 3, 16, 20}
WaitDurations == {0, 3, 16, 20, 40000}
\* periods given to the constructor and to Reset (seconds; 0 = default)
Periods == {0, 1, 3, 4}

\* ------------------------------------------------------------ unsigned long long
\* A 64-bit unsigned value is its 8 bytes, least significant first.
U64Zero == <<0, 0, 0, 0, 0, 0, 0, 0>>

\* the 64-bit value of a natural number below 2^31
U64FromNat(n) ==
    << n % 256, (n \div 256) % 256, (n \div 65536) % 256,
       (n \div 16777216) % 256, 0, 0, 0, 0 >>

RECURSIVE U64IncFrom(_, _)
U64IncFrom(x, i) ==
    IF i > 8 THEN x
    ELSE IF x[i] = 255 THEN U64IncFrom([x EXCEPT ![i] = 0], i + 1)
    ELSE [x EXCEPT ![i] = x[i] + 1]

\* x + 1 modulo 2^64
U64Inc(x) == U64IncFrom(x, 1)

RECURSIVE U64LtFrom(_, _, _)
U64LtFrom(x, y, i) ==
    IF i = 0 THEN FALSE
    ELSE IF x[i] # y[i] THEN x[i] < y[i]
    ELSE U64LtFrom(x, y, i - 1)

\* x < y
U64Lt(x, y) == U64LtFrom(x, y, 8)

RECURSIVE U64DivFrom(_, _, _, _)
U64DivFrom(x, k, i, r) ==
    IF i = 0 THEN x
    ELSE LET cur == r * 256 + x[i]
         IN  U64DivFrom([x EXCEPT ![i] = cur \div k], k, i - 1, cur % k)

\* x / k, truncating, for a small divisor k
U64Div(x, k) == U64DivFrom(x, k, 8, 0)

\* conversion unsigned long long -> int: the low 16 bits, read as two's complement
IntOfU64(x) ==
    LET v == (x[1] + 256 * x[2]) % IntMod
    IN  IF 2 * v >= IntMod THEN v - IntMod ELSE v

\* conversion int -> unsigned long long: sign extension to 64 bits
U64OfInt(v) ==
    IF v >= 0 THEN U64FromNat(v)
    ELSE LET m == v + IntMod
         IN  << m % 256, m \div 256, 255, 255, 255, 255, 255, 255 >>

\* ------------------------------------------------------------ pure functions
\* an off-by-one in the cascade: 4 is sent to the 2s step
DeterminePeriodOffByOne(periodInSeconds) ==
    IF periodInSeconds >= 8 \/ periodInSeconds = 0 THEN WDTO_8S
    ELSE IF periodInSeconds > 4 THEN WDTO_4S
    ELSE IF periodInSeconds >= 2 THEN WDTO_2S
    ELSE WDTO_1S

\* the results of the two middle branches exchanged
DeterminePeriodSwapped(periodInSeconds) ==
    IF periodInSeconds >= 8 \/ periodInSeconds = 0 THEN WDTO_8S
    ELSE IF periodInSeconds >= 4 THEN WDTO_2S
    ELSE IF periodInSeconds >= 2 THEN WDTO_4S
    ELSE WDTO_1S

DeterminePeriod(periodInSeconds) ==
    IF periodInSeconds >= 8 \/ periodInSeconds = 0 THEN WDTO_8S
    ELSE IF periodInSeconds >= 4 THEN WDTO_4S
    ELSE IF periodInSeconds >= 2 THEN WDTO_2S
    ELSE WDTO_1S

\* Sleep without the division: one cycle per second whatever the step
SleepCyclesNoDivision(d, w) == d

\* ncycles of Sleep (unsigned long long)
SleepCycles(d, w) ==
    IF w = WDTO_8S THEN U64Div(d, 8)
    ELSE IF w = WDTO_4S THEN U64Div(d, 4)
    ELSE IF w = WDTO_2S THEN U64Div(d, 2)
    ELSE d

\* ncycles of Wait (int): the quotient is converted to int
WaitCycles(d, w) ==
    IF w = WDTO_8S THEN IntOfU64(U64Div(d, 8))
    ELSE IF w = WDTO_4S THEN IntOfU64(U64Div(d, 4))
    ELSE IF w = WDTO_2S THEN IntOfU64(U64Div(d, 2))
    ELSE IntOfU64(d)

\* the time-out in seconds of a prescaler value (table of Configure)
StepSeconds(w) ==
    IF w = WDTO_8S THEN 8
    ELSE IF w = WDTO_4S THEN 4
    ELSE IF w = WDTO_2S THEN 2
    ELSE 1

\* the value Configure computes for WDTCSR
Wdps(w, sleepOrWait) ==
    [wdp |-> w % 16, wde |-> TRUE, wdie |-> sleepOrWait, wdce |-> FALSE]

\* ------------------------------------------------------------ state
VARIABLES
    wdto,            \* Watchdog::_wdto
    sleepOrWaitCount,\* _sleepOrWaitCount (8 bytes)
    waitTotal,       \* _waitTotal (8 bytes)
    wde, wdie, wdce, wdp, wdif,   \* WDTCSR: enable, interrupt enable, change enable, prescaler, interrupt flag
    wdrf,            \* MCUSR.WDRF
    iflag,           \* SREG.I, the global interrupt enable
    due,             \* the running watchdog period is about to run out
    powered,         \* peripherals on (power_all_enable) or off (power_all_disable)
    pc,              \* foreground position
    isr,             \* handler position, "off" when it is not running
    cfg,             \* the Configure call in progress of each context
    periodInSeconds, \* argument of the call in progress
    ncycles,         \* Sleep's local ncycles (8 bytes)
    wncycles,        \* Wait's local ncycles (int)
    nsleeps,         \* sleep_mode() calls made by the Sleep in progress
    waiting,         \* a Wait has returned and no call was made since
    waitCalledIn,    \* what the last call, if a Wait, found: "quiet" (WDIE clear),
                     \* "armed" (WDIE set), "inflight" (WDIE set by a Wait that
                     \* has returned and has cycles left); "none" for another call
    dp               \* inputs and results of the DeterminePeriod applications

vars == << wdto, sleepOrWaitCount, waitTotal, wde, wdie, wdce, wdp, wdif, wdrf,
           iflag, due, powered, pc, isr, cfg, periodInSeconds, ncycles,
           wncycles, nsleeps, waiting, waitCalledIn, dp >>

hw == << wde, wdie, wdce, wdp, wdif, wdrf, iflag, due, powered >>
shared == << sleepOrWaitCount, waitTotal >>
locals == << periodInSeconds, ncycles, wncycles, nsleeps >>
history == << waiting, waitCalledIn, dp >>

NoFrame == [pc |-> "none", mode |-> FALSE, wdps |-> Wdps(0, FALSE), sreg |-> FALSE]
NoDp == [s1 |-> 0, s2 |-> 0, r1 |-> 0, r2 |-> 0]

\* Operating Mode
ResetMode == wde /\ ~wdie
InterruptMode == wdie

\* an enabled, flagged watchdog interrupt is served before the next instruction
IntPending == wdif /\ wdie /\ iflag

\* the context c ("fg" or "isr") is the one executing
Runs(c) == IF c = "isr" THEN isr # "off" ELSE isr = "off" /\ ~IntPending

\* the foreground executes the statement at label l
At(l) == pc = l /\ Runs("fg") /\ cfg["fg"].pc = "none"

\* the handler executes the statement at label l
IsrAt(l) == isr = l /\ cfg["isr"].pc = "none"

\* state after power-on, the static initialisers and the constructor
\* Watchdog(p): the watchdog is off
Started ==
    /\ \E p \in Periods : wdto = DeterminePeriod(p)
    /\ sleepOrWaitCount = U64Zero
    /\ waitTotal = U64FromNat(1)
    /\ wdrf = FALSE /\ wde = FALSE
    /\ wdie = FALSE /\ wdce = FALSE /\ wdp = 0 /\ wdif = FALSE
    /\ iflag = TRUE /\ due = FALSE /\ powered = TRUE
    /\ pc = "idle" /\ isr = "off"
    /\ cfg = [c \in {"fg", "isr"} |-> NoFrame]
    /\ periodInSeconds = 0 /\ ncycles = U64Zero /\ wncycles = 0 /\ nsleeps = 0
    /\ waiting = FALSE /\ waitCalledIn = "none"

\* ------------------------------------------------------------ Configure
\* the call Configure(m) made by context c; sreg keeps the I flag found at the
\* call
CallCfg(c, m) ==
    cfg' = [cfg EXCEPT ![c] = [NoFrame EXCEPT !.pc = "C35", !.mode = m, !.sreg = iflag]]

\* lines 35-40: wdps from _wdto and the mode
C35(c) ==
    /\ Runs(c) /\ cfg[c].pc = "C35"
    /\ cfg' = [cfg EXCEPT ![c].pc = "C42", ![c].wdps = Wdps(wdto, cfg[c].mode)]
    /\ UNCHANGED << wdto, shared, hw, pc, isr, locals, history >>

\* Configure without noInterrupts()
C42NoDisable(c) ==
    /\ Runs(c) /\ cfg[c].pc = "C42"
    /\ cfg' = [cfg EXCEPT ![c].pc = "C51"]
    /\ UNCHANGED << wdto, shared, hw, pc, isr, locals, history >>

\* line 42: noInterrupts()
C42(c) ==
    /\ Runs(c) /\ cfg[c].pc = "C42"
    /\ iflag' = FALSE
    /\ cfg' = [cfg EXCEPT ![c].pc = "C51"]
    /\ UNCHANGED << wdto, shared, wde, wdie, wdce, wdp, wdif, wdrf, due, powered,
                    pc, isr, locals, history >>

\* line 51: MCUSR &= ~_BV(WDRF)
C51(c) ==
    /\ Runs(c) /\ cfg[c].pc = "C51"
    /\ wdrf' = FALSE
    /\ cfg' = [cfg EXCEPT ![c].pc = "C63"]
    /\ UNCHANGED << wdto, shared, wde, wdie, wdce, wdp, wdif, iflag, due, powered,
                    pc, isr, locals, history >>

\* A write of v to WDTCSR: WDE and the prescaler change only while WDCE is
\* set from the write before; a write of WDCE and WDE opens that window;
\* WDE cannot be cleared while WDRF is set.
WriteWDTCSR(v) ==
    /\ wdce' = (v.wdce /\ v.wde)
    /\ wdp' = IF wdce THEN v.wdp ELSE wdp
    /\ wde' = IF v.wde THEN TRUE ELSE IF wdce /\ ~wdrf THEN FALSE ELSE wde
    /\ wdie' = v.wdie

\* line 63: WDTCSR = _BV(WDCE) | _BV(WDE)
C63(c) ==
    /\ Runs(c) /\ cfg[c].pc = "C63"
    /\ WriteWDTCSR([wdp |-> 0, wde |-> TRUE, wdie |-> FALSE, wdce |-> TRUE])
    /\ cfg' = [cfg EXCEPT ![c].pc = "C79"]
    /\ UNCHANGED << wdto, shared, wdif, wdrf, iflag, due, powered, pc, isr, locals, history >>

\* line 79: WDTCSR = wdps
C79(c) ==
    /\ Runs(c) /\ cfg[c].pc = "C79"
    /\ WriteWDTCSR(cfg[c].wdps)
    /\ cfg' = [cfg EXCEPT ![c].pc = "C81"]
    /\ UNCHANGED << wdto, shared, wdif, wdrf, iflag, due, powered, pc, isr, locals, history >>

\* line 81: interrupts()
C81(c) ==
    /\ Runs(c) /\ cfg[c].pc = "C81"
    /\ iflag' = TRUE
    /\ cfg' = [cfg EXCEPT ![c].pc = "C83"]
    /\ UNCHANGED << wdto, shared, wde, wdie, wdce, wdp, wdif, wdrf, due, powered,
                    pc, isr, locals, history >>

\* line 83: wdt_reset(), and the return to the caller
C83(c) ==
    /\ Runs(c) /\ cfg[c].pc = "C83"
    /\ due' = FALSE
    /\ cfg' = [cfg EXCEPT ![c] = NoFrame]
    /\ UNCHANGED << wdto, shared, wde, wdie, wdce, wdp, wdif, wdrf, iflag, powered,
                    pc, isr, locals, history >>

ConfigureStep(c) ==
    C35(c) \/ C42(c) \/ C51(c) \/ C63(c) \/ C79(c) \/ C81(c) \/ C83(c)

\* ------------------------------------------------------------ hardware
\* the Cycle Counter is below the bound of the model
BelowMaxCount == U64Lt(sleepOrWaitCount, U64FromNat(MaxCount))

\* Time passes while the foreground is between two calls or halted in
\* sleep_mode(): the running period comes to its end.
Tick ==
    /\ pc \in {"idle", "asleep"} /\ isr = "off" /\ cfg["fg"].pc = "none"
    /\ (wde \/ wdie) /\ ~due /\ ~wdif
    /\ BelowMaxCount
    /\ due' = TRUE
    /\ UNCHANGED << wdto, shared, wde, wdie, wdce, wdp, wdif, wdrf, iflag, powered,
                    pc, isr, cfg, locals, history >>

\* The period comes to its end at any point of the foreground code.
TickAnyTime ==
    /\ isr = "off"
    /\ (wde \/ wdie) /\ ~due /\ ~wdif
    /\ BelowMaxCount
    /\ due' = TRUE
    /\ UNCHANGED << wdto, shared, wde, wdie, wdce, wdp, wdif, wdrf, iflag, powered,
                    pc, isr, cfg, locals, history >>

\* The period runs out with WDIE set: the hardware raises the interrupt flag
\* and the timer starts over.
Expire ==
    /\ due /\ wdie
    /\ wdif' = TRUE /\ due' = FALSE
    /\ UNCHANGED << wdto, shared, wde, wdie, wdce, wdp, wdrf, iflag, powered,
                    pc, isr, cfg, locals, history >>

\* The period runs out with WDE set and WDIE clear: the device is reset, the
\* static initialisers and the constructor run again, WDRF is set.
SystemReset ==
    /\ due /\ wde /\ ~wdie /\ isr = "off"
    /\ \E p \in Periods : wdto' = DeterminePeriod(p)
    /\ sleepOrWaitCount' = U64Zero
    /\ waitTotal' = U64FromNat(1)
    /\ wdrf' = TRUE /\ wde' = TRUE
    /\ wdie' = FALSE /\ wdce' = FALSE /\ wdp' = 0 /\ wdif' = FALSE
    /\ iflag' = TRUE /\ due' = FALSE /\ powered' = TRUE
    /\ pc' = "idle"
    /\ cfg' = [c \in {"fg", "isr"} |-> NoFrame]
    /\ periodInSeconds' = 0 /\ ncycles' = U64Zero /\ wncycles' = 0 /\ nsleeps' = 0
    /\ waiting' = FALSE /\ waitCalledIn' = "none"
    /\ UNCHANGED << isr, dp >>

\* ------------------------------------------------------------ ISR(WDT_vect)
\* The hardware enters the handler: I is cleared, WDIF is cleared and, with
\* WDE set, WDIE is cleared (the watchdog is back in reset mode until the
\* software sets WDIE again).
IsrEnter ==
    /\ isr = "off" /\ IntPending
    /\ isr' = "I193"
    /\ iflag' = FALSE /\ wdif' = FALSE
    /\ wdie' = IF wde THEN FALSE ELSE wdie
    /\ UNCHANGED << wdto, shared, wde, wdce, wdp, wdrf, due, powered, pc, cfg,
                    locals, history >>

\* the handler counts a firing twice
I193Twice ==
    /\ IsrAt("I193")
    /\ sleepOrWaitCount' = U64Inc(U64Inc(sleepOrWaitCount))
    /\ isr' = "I195"
    /\ UNCHANGED << wdto, waitTotal, hw, pc, cfg, locals, history >>

\* line 193: _sleepOrWaitCount++
I193 ==
    /\ IsrAt("I193")
    /\ sleepOrWaitCount' = U64Inc(sleepOrWaitCount)
    /\ isr' = "I195"
    /\ UNCHANGED << wdto, waitTotal, hw, pc, cfg, locals, history >>

\* the handler re-arms also when the target is 0
I195RearmOnZero ==
    /\ IsrAt("I195")
    /\ isr' = IF U64Lt(sleepOrWaitCount, waitTotal) \/ waitTotal = U64Zero
              THEN "I197" ELSE "I201"
    /\ UNCHANGED << wdto, shared, hw, pc, cfg, locals, history >>

\* the handler re-arms also when the counter has reached the target
I195RearmAtTarget ==
    /\ IsrAt("I195")
    /\ isr' = IF ~U64Lt(waitTotal, sleepOrWaitCount) THEN "I197" ELSE "I201"
    /\ UNCHANGED << wdto, shared, hw, pc, cfg, locals, history >>

\* line 195: if (_sleepOrWaitCount < _waitTotal)
I195 ==
    /\ IsrAt("I195")
    /\ isr' = IF U64Lt(sleepOrWaitCount, waitTotal) THEN "I197" ELSE "I201"
    /\ UNCHANGED << wdto, shared, hw, pc, cfg, locals, history >>

\* line 197: Watchdog::Configure(true)
I197 ==
    /\ IsrAt("I197")
    /\ CallCfg("isr", TRUE)
    /\ isr' = "I206"
    /\ UNCHANGED << wdto, shared, hw, pc, locals, history >>

\* the handler programs the interrupt again when the target is 0
I201RearmOnZero ==
    /\ IsrAt("I201")
    /\ isr' = IF sleepOrWaitCount = waitTotal /\ waitTotal # U64Zero THEN "I203"
              ELSE IF waitTotal = U64Zero THEN "I197"
              ELSE "I206"
    /\ UNCHANGED << wdto, shared, hw, pc, cfg, locals, history >>

\* line 201: if (_sleepOrWaitCount == _waitTotal && _waitTotal != 0)
I201 ==
    /\ IsrAt("I201")
    /\ isr' = IF sleepOrWaitCount = waitTotal /\ waitTotal # U64Zero
              THEN "I203" ELSE "I206"
    /\ UNCHANGED << wdto, shared, hw, pc, cfg, locals, history >>

\* the handler re-arms where it should finish
I203Rearm ==
    /\ IsrAt("I203")
    /\ CallCfg("isr", TRUE)
    /\ isr' = "I206"
    /\ UNCHANGED << wdto, shared, hw, pc, locals, history >>

\* line 203: Watchdog::Configure()
I203 ==
    /\ IsrAt("I203")
    /\ CallCfg("isr", FALSE)
    /\ isr' = "I206"
    /\ UNCHANGED << wdto, shared, hw, pc, locals, history >>

\* line 206: the handler returns; I is set again; a processor halted in
\* sleep_mode() resumes after it
I206 ==
    /\ IsrAt("I206")
    /\ isr' = "off"
    /\ iflag' = TRUE
    /\ pc' = IF pc = "asleep" THEN "S135" ELSE pc
    /\ UNCHANGED << wdto, shared, wde, wdie, wdce, wdp, wdif, wdrf, due, powered,
                    cfg, locals, history >>

\* ------------------------------------------------------------ Watchdog::Watchdog
CallConstruct(p) ==
    /\ At("idle")
    /\ pc' = "K89" /\ periodInSeconds' = p
    /\ UNCHANGED << wdto, shared, hw, isr, cfg, ncycles, wncycles, nsleeps, dp >>
    /\ waiting' = FALSE /\ waitCalledIn' = "none"

\* line 89: wdt_disable(): the timer is restarted and WDTCSR is cleared in
\* the timed sequence, with interrupts disabled for its duration
K89 ==
    /\ At("K89")
    /\ due' = FALSE
    /\ wde' = wdrf /\ wdie' = FALSE /\ wdce' = FALSE /\ wdp' = 0
    /\ pc' = "K91"
    /\ UNCHANGED << wdto, shared, wdif, wdrf, iflag, powered, isr, cfg, locals, history >>

\* line 91: _wdto = DeterminePeriod(periodInSeconds)
K91 ==
    /\ At("K91")
    /\ wdto' = DeterminePeriod(periodInSeconds)
    /\ pc' = "K92"
    /\ UNCHANGED << shared, hw, isr, cfg, locals, history >>

\* the call returns to the caller
Return(l) ==
    /\ At(l)
    /\ pc' = "idle"
    /\ periodInSeconds' = 0 /\ ncycles' = U64Zero /\ wncycles' = 0 /\ nsleeps' = 0
    /\ waiting' = (l = "W165")
    /\ UNCHANGED << wdto, shared, hw, isr, cfg, waitCalledIn, dp >>

K92 == Return("K92")

\* ------------------------------------------------------------ Configure, called directly
CallConfigure(sleepOrWait) ==
    /\ At("idle")
    /\ CallCfg("fg", sleepOrWait)
    /\ pc' = "U84"
    /\ UNCHANGED << wdto, shared, hw, isr, locals, dp >>
    /\ waiting' = FALSE /\ waitCalledIn' = "none"

U84 == Return("U84")

\* ------------------------------------------------------------ Watchdog::Sleep
CallSleep(d) ==
    /\ At("idle")
    /\ pc' = "S97" /\ periodInSeconds' = d
    /\ UNCHANGED << wdto, shared, hw, isr, cfg, ncycles, wncycles, nsleeps, dp >>
    /\ waiting' = FALSE /\ waitCalledIn' = "none"

\* lines 97-107: ncycles from the period and _wdto
S97 ==
    /\ At("S97")
    /\ ncycles' = SleepCycles(U64FromNat(periodInSeconds), wdto)
    /\ pc' = "S109"
    /\ UNCHANGED << wdto, shared, hw, isr, cfg, periodInSeconds, wncycles, nsleeps, history >>

\* line 109: Configure(true)
S109 ==
    /\ At("S109")
    /\ CallCfg("fg", TRUE)
    /\ pc' = "S112"
    /\ UNCHANGED << wdto, shared, hw, isr, locals, history >>

\* lines 112-120: power_all_disable(); set_sleep_mode(SLEEP_MODE_PWR_DOWN)
S112 ==
    /\ At("S112")
    /\ powered' = FALSE
    /\ pc' = "S122"
    /\ UNCHANGED << wdto, shared, wde, wdie, wdce, wdp, wdif, wdrf, iflag, due,
                    isr, cfg, locals, history >>

\* line 122: _sleepOrWaitCount = 0
S122 ==
    /\ At("S122")
    /\ sleepOrWaitCount' = U64Zero
    /\ pc' = "S124"
    /\ UNCHANGED << wdto, waitTotal, hw, isr, cfg, locals, history >>

\* line 124: while (_sleepOrWaitCount < ncycles)
S124 ==
    /\ At("S124")
    /\ pc' = IF U64Lt(sleepOrWaitCount, ncycles) THEN "S128" ELSE "S141"
    /\ UNCHANGED << wdto, shared, hw, isr, cfg, locals, history >>

\* line 128: sleep_mode(): the processor halts until an interrupt was served
S128 ==
    /\ At("S128")
    /\ pc' = "asleep"
    /\ nsleeps' = nsleeps + 1
    /\ UNCHANGED << wdto, shared, hw, isr, cfg, periodInSeconds, ncycles, wncycles, history >>

\* line 135: sleep_disable()
S135 ==
    /\ At("S135")
    /\ pc' = "S137"
    /\ UNCHANGED << wdto, shared, hw, isr, cfg, locals, history >>

\* line 137: Configure(true)
S137 ==
    /\ At("S137")
    /\ CallCfg("fg", TRUE)
    /\ pc' = "S124"
    /\ UNCHANGED << wdto, shared, hw, isr, locals, history >>

\* line 141: power_all_enable()
S141 ==
    /\ At("S141")
    /\ powered' = TRUE
    /\ pc' = "S143"
    /\ UNCHANGED << wdto, shared, wde, wdie, wdce, wdp, wdif, wdrf, iflag, due,
                    isr, cfg, locals, history >>

\* Sleep ends by arming the interrupt again
S143Rearm ==
    /\ At("S143")
    /\ CallCfg("fg", TRUE)
    /\ pc' = "S144"
    /\ UNCHANGED << wdto, shared, hw, isr, locals, history >>

\* line 143: Configure()
S143 ==
    /\ At("S143")
    /\ CallCfg("fg", FALSE)
    /\ pc' = "S144"
    /\ UNCHANGED << wdto, shared, hw, isr, locals, history >>

S144 == Return("S144")

\* ------------------------------------------------------------ Watchdog::Wait
\* the state of the watchdog that a call of Wait finds
HardwareAtCall ==
    IF ~wdie THEN "quiet"
    ELSE IF waiting /\ U64Lt(sleepOrWaitCount, waitTotal) THEN "inflight"
    ELSE "armed"

CallWait(d) ==
    /\ At("idle")
    /\ pc' = "W149" /\ periodInSeconds' = d
    /\ UNCHANGED << wdto, shared, hw, isr, cfg, ncycles, wncycles, nsleeps, dp >>
    /\ waiting' = FALSE /\ waitCalledIn' = HardwareAtCall

\* lines 149-159: int ncycles from the period and _wdto
W149 ==
    /\ At("W149")
    /\ wncycles' = WaitCycles(U64FromNat(periodInSeconds), wdto)
    /\ pc' = "W161"
    /\ UNCHANGED << wdto, shared, hw, isr, cfg, periodInSeconds, ncycles, nsleeps, history >>

\* line 161: _sleepOrWaitCount = 0
W161 ==
    /\ At("W161")
    /\ sleepOrWaitCount' = U64Zero
    /\ pc' = "W162"
    /\ UNCHANGED << wdto, waitTotal, hw, isr, cfg, locals, history >>

\* line 162: _waitTotal = ncycles
W162 ==
    /\ At("W162")
    /\ waitTotal' = U64OfInt(wncycles)
    /\ pc' = "W164"
    /\ UNCHANGED << wdto, sleepOrWaitCount, hw, isr, cfg, locals, history >>

\* line 164: Configure(true)
W164 ==
    /\ At("W164")
    /\ CallCfg("fg", TRUE)
    /\ pc' = "W165"
    /\ UNCHANGED << wdto, shared, hw, isr, locals, history >>

W165 == Return("W165")

\* ------------------------------------------------------------ Watchdog::Reset
CallReset(n) ==
    /\ At("idle")
    /\ pc' = "R170" /\ periodInSeconds' = n
    /\ UNCHANGED << wdto, shared, hw, isr, cfg, ncycles, wncycles, nsleeps, dp >>
    /\ waiting' = FALSE /\ waitCalledIn' = "none"

\* lines 170-173: if ((WDTCSR & _BV(WDE)) || (MCUSR & _BV(WDRF))) wdt_reset()
R170 ==
    /\ At("R170")
    /\ due' = IF wde \/ wdrf THEN FALSE ELSE due
    /\ pc' = "R175"
    /\ UNCHANGED << wdto, shared, wde, wdie, wdce, wdp, wdif, wdrf, iflag, powered,
                    isr, cfg, locals, history >>

\* line 175: if (periodInSeconds != 0)
R175 ==
    /\ At("R175")
    /\ pc' = IF periodInSeconds # 0 THEN "R177" ELSE "R183"
    /\ UNCHANGED << wdto, shared, hw, isr, cfg, locals, history >>

\* line 177: _wdto = DeterminePeriod(periodInSeconds)
R177 ==
    /\ At("R177")
    /\ wdto' = DeterminePeriod(periodInSeconds)
    /\ pc' = "R178"
    /\ UNCHANGED << shared, hw, isr, cfg, locals, history >>

\* line 178: _waitTotal = 0
R178 ==
    /\ At("R178")
    /\ waitTotal' = U64Zero
    /\ pc' = "R180"
    /\ UNCHANGED << wdto, sleepOrWaitCount, hw, isr, cfg, locals, history >>

\* Reset(n) arms the interrupt instead of the reset
R180Rearm ==
    /\ At("R180")
    /\ CallCfg("fg", TRUE)
    /\ pc' = "R183"
    /\ UNCHANGED << wdto, shared, hw, isr, locals, history >>

\* line 180: Configure()
R180 ==
    /\ At("R180")
    /\ CallCfg("fg", FALSE)
    /\ pc' = "R183"
    /\ UNCHANGED << wdto, shared, hw, isr, locals, history >>

\* line 183: if (_waitTotal != 0)
R183 ==
    /\ At("R183")
    /\ pc' = IF waitTotal # U64Zero THEN "R185" ELSE "R188"
    /\ UNCHANGED << wdto, shared, hw, isr, cfg, locals, history >>

\* line 185: _waitTotal = 0
R185 ==
    /\ At("R185")
    /\ waitTotal' = U64Zero
    /\ pc' = "R186"
    /\ UNCHANGED << wdto, sleepOrWaitCount, hw, isr, cfg, locals, history >>

\* line 186: Configure()
R186 ==
    /\ At("R186")
    /\ CallCfg("fg", FALSE)
    /\ pc' = "R188"
    /\ UNCHANGED << wdto, shared, hw, isr, locals, history >>

R188 == Return("R188")

\* ------------------------------------------------------------ specification
Foreground ==
    \/ \E p \in Periods : CallConstruct(p)
    \/ K89 \/ K91 \/ K92
    \/ \E m \in BOOLEAN : CallConfigure(m)
    \/ U84
    \/ \E d \in SleepDurations : CallSleep(d)
    \/ S97 \/ S109 \/ S112 \/ S122 \/ S124 \/ S128 \/ S135 \/ S137 \/ S141 \/ S143 \/ S144
    \/ \E d \in WaitDurations : CallWait(d)
    \/ W149 \/ W161 \/ W162 \/ W164 \/ W165
    \/ \E n \in Periods : CallReset(n)
    \/ R170 \/ R175 \/ R177 \/ R178 \/ R180 \/ R183 \/ R185 \/ R186 \/ R188
    \/ ConfigureStep("fg")

Handler ==
    \/ IsrEnter
    \/ I193 \/ I195 \/ I197 \/ I201 \/ I203 \/ I206
    \/ ConfigureStep("isr")

Hardware == Tick \/ Expire \/ SystemReset

Next == Foreground \/ Handler \/ Hardware

Init == Started /\ dp = NoDp

Spec == Init /\ [][Next]_vars

\* the same program with no assumption on when a period runs out
NextAnyTime == Foreground \/ Handler \/ TickAnyTime \/ Expire \/ SystemReset

SpecAnyTime == Init /\ [][NextAnyTime]_vars

\* The hardware keeps running and the handler, once entered, runs to its end.
FairSpec == Spec /\ WF_vars(Tick) /\ WF_vars(Expire) /\ WF_vars(Handler)

\* ------------------------------------------------------------ DeterminePeriod alone
\* requested periods (unsigned int)
DpPeriods == (0 .. MaxPeriod) \cup {IntMod - 1}

InitDP ==
    /\ Started
    /\ dp \in [s1 : DpPeriods, s2 : DpPeriods, r1 : {0}, r2 : {0}]

ApplyFirst ==
    /\ dp.r1 = 0
    /\ dp' = [dp EXCEPT !.r1 = DeterminePeriod(dp.s1)]
    /\ UNCHANGED << wdto, shared, hw, pc, isr, cfg, locals, waiting, waitCalledIn >>

ApplySecond ==
    /\ dp.r2 = 0
    /\ dp' = [dp EXCEPT !.r2 = DeterminePeriod(dp.s2)]
    /\ UNCHANGED << wdto, shared, hw, pc, isr, cfg, locals, waiting, waitCalledIn >>

NextDP == ApplyFirst \/ ApplySecond

SpecDP == InitDP /\ [][NextDP]_vars

\* ------------------------------------------------------------ claims
\* the handler is about to return
HandlerReturns == isr = "I206" /\ cfg["isr"].pc = "none"

\* the handler has counted up to a non-zero Target Cycle Count
CountReachedTarget == sleepOrWaitCount = waitTotal /\ waitTotal # U64Zero

\* the foreground is at the return of the call whose last label is l
Returning(l) == pc = l /\ cfg["fg"].pc = "none" /\ isr = "off"

\* floor(d / step) for the Current Step
FloorCycles(d) == d \div StepSeconds(wdto)

C2_SleepCountsExactly ==
    Returning("S144") =>
        /\ sleepOrWaitCount = U64FromNat(FloorCycles(periodInSeconds))
        /\ nsleeps = FloorCycles(periodInSeconds)

\* Sleep(16) with the 8s step returns after 2 iterations, a target of 2 left
\* behind by an earlier Wait
C2_Witness ==
    /\ Returning("S144") /\ wdto = WDTO_8S /\ periodInSeconds = 16
    /\ nsleeps = 2 /\ waitTotal = U64FromNat(2)

\* C3: when Sleep(d) returns, the Operating Mode is Reset Mode and the
\* peripherals are on.
C3_SleepReturnsInResetMode ==
    Returning("S144") => (ResetMode /\ powered)

\* Sleep(3) with the 8s step returns without an iteration
C3_Witness ==
    /\ Returning("S144") /\ wdto = WDTO_8S /\ periodInSeconds = 3 /\ nsleeps = 0
    /\ ResetMode /\ powered

\* C4 as stated: when Reset() returns, Target Cycle Count is 0 and the
\* Operating Mode is Reset Mode.
C4_ResetSupersedes ==
    (Returning("R188") /\ periodInSeconds = 0) =>
        (waitTotal = U64Zero /\ ResetMode)

\* C5: when Reset(n), n # 0, returns, Current Step is DeterminePeriod(n),
\* Target Cycle Count is 0 and the Operating Mode is Reset Mode.
C5_ResetWithPeriod ==
    (Returning("R188") /\ periodInSeconds # 0) =>
        /\ wdto = DeterminePeriod(periodInSeconds)
        /\ waitTotal = U64Zero
        /\ ResetMode

\* Reset(3) returns with the 2s step, called while the interrupt was armed
C5_Witness ==
    /\ Returning("R188") /\ periodInSeconds = 3 /\ wdto = WDTO_2S
    /\ sleepOrWaitCount # U64Zero /\ ResetMode

\* Sleep's loop has cycles left: armed, counter reset, not inside Configure
SleepInProgress ==
    /\ pc \in {"S124", "S128", "asleep", "S135", "S137"}
    /\ cfg["fg"].pc = "none"
    /\ U64Lt(sleepOrWaitCount, ncycles)

\* a Wait has returned, no call was made since, the counter is below the target
WaitInProgress ==
    /\ waiting /\ pc = "idle"
    /\ U64Lt(sleepOrWaitCount, waitTotal)

\* C6 as stated: while a Sleep or Wait sequence is in progress and the handler
\* is not executing, the Operating Mode is Interrupt Mode.
C6_InterruptModeDuringSequence ==
    (isr = "off" /\ (SleepInProgress \/ WaitInProgress)) => InterruptMode

\* the bound of the model lets the handler count up to the target
TargetWithinBound == ~U64Lt(U64FromNat(MaxCount), waitTotal)

\* C7: after Wait(d) has returned, with no further foreground call, the
\* Operating Mode eventually is Reset Mode.
C7_WaitEndsInResetMode ==
    (waiting /\ TargetWithinBound) ~> (ResetMode \/ ~waiting)

\* Wait(3) with the 8s step has returned: target 0, Interrupt Mode
C7_Witness ==
    /\ waiting /\ pc = "idle" /\ isr = "off" /\ wdto = WDTO_8S
    /\ waitTotal = U64Zero /\ InterruptMode

\* C8 as stated: Wait(d) stores floor(d / step) in Target Cycle Count.
C8_WaitTargetIsFloor ==
    (pc = "W164" /\ cfg["fg"].pc = "none") =>
        waitTotal = U64FromNat(FloorCycles(periodInSeconds))

\* the largest step of {1, 2, 4, 8} that is <= s; the 8s step for s = 0
LargestStepLeq(s) ==
    IF s = 0 THEN 8
    ELSE CHOOSE t \in {1, 2, 4, 8} :
            /\ t <= s
            /\ \A u \in {1, 2, 4, 8} : u <= s => u <= t

\* C9: DeterminePeriod(s) is one of the four steps, the largest one <= s, and
\* the 8s step for s = 0.
C9_DeterminePeriodLargestStep ==
    dp.r1 # 0 =>
        /\ dp.r1 \in {WDTO_1S, WDTO_2S, WDTO_4S, WDTO_8S}
        /\ StepSeconds(dp.r1) = LargestStepLeq(dp.s1)

\* DeterminePeriod(3) is the 2s step
C9_Witness == dp.s1 = 3 /\ dp.r1 = WDTO_2S

\* C10 as stated: for all s1 <= s2, the step of s1 is <= the step of s2.
C10_Monotonic ==
    (dp.r1 # 0 /\ dp.r2 # 0 /\ dp.s1 <= dp.s2) =>
        StepSeconds(dp.r1) <= StepSeconds(dp.r2)

\* C10 amended: for all 1 <= s1 <= s2, the step of s1 is <= the step of s2.
C10_MonotonicFromOne ==
    (dp.r1 # 0 /\ dp.r2 # 0 /\ 1 <= dp.s1 /\ dp.s1 <= dp.s2) =>
        StepSeconds(dp.r1) <= StepSeconds(dp.r2)

\* DeterminePeriod(3) and DeterminePeriod(9): the 2s and the 8s step
C10_Witness ==
    dp.s1 = 3 /\ dp.s2 = 9 /\ dp.r1 = WDTO_2S /\ dp.r2 = WDTO_8S

\* C11 as stated: when Configure returns, the global interrupt enable is what
\* it was when Configure was called, in the foreground and in the handler.
C11_ConfigureRestoresInterruptState ==
    [][ \A c \in {"fg", "isr"} : C83(c) => iflag' = cfg[c].sreg ]_vars

\* C12: from the unlock write of line 63 to the configuration write of line 79
\* interrupts are disabled and the handler does not start or take a step of its
\* own; apart from a reset of the device, the next change of WDE, WDIE, WDCE or
\* the prescaler is the configuration write itself.
C12_UnlockAndConfigureAtomic ==
    [][ \A c \in {"fg", "isr"} :
            cfg[c].pc = "C79" =>
                /\ ~iflag
                /\ isr' = isr
                /\ C79(c) \/ SystemReset \/ UNCHANGED << wde, wdie, wdce, wdp >> ]_vars

\* the foreground is between the two writes while a time-out interrupt is
\* flagged and held off
C12_Witness ==
    /\ cfg["fg"].pc = "C79" /\ isr = "off" /\ wdce /\ wdif /\ ~iflag

C14_HandlerCountsThenDecides ==
    [][ /\ (isr = "off" /\ isr' # "off") =>
               (isr' = "I193" /\ sleepOrWaitCount' = sleepOrWaitCount)
        /\ (isr = "I193" /\ isr' # isr) =>
               (isr' = "I195" /\ sleepOrWaitCount' = U64Inc(sleepOrWaitCount))
        /\ (isr \notin {"off", "I193"}) =>
               (isr' # "I193" /\ sleepOrWaitCount' = sleepOrWaitCount)
        /\ (isr # "off") => (waitTotal' = waitTotal /\ wdto' = wdto)
        /\ (cfg["isr"].pc = "none" /\ cfg'["isr"].pc # "none") =>
               /\ isr \in {"I197", "I203"} /\ isr' = "I206"
               /\ isr = "I197" =>
                      (U64Lt(sleepOrWaitCount, waitTotal) /\ cfg'["isr"].mode)
               /\ isr = "I203" =>
                      (CountReachedTarget /\ ~cfg'["isr"].mode)
        /\ (HandlerReturns /\ isr' # isr) =>
               /\ isr' = "off"
               /\ U64Lt(sleepOrWaitCount, waitTotal) => InterruptMode'
               /\ CountReachedTarget => ResetMode'
        /\ (pc' = "S124" /\ cfg'["fg"].pc = "none" /\ isr' = "off") =>
               sleepOrWaitCount' = U64FromNat(nsleeps')
      ]_vars

\* a Wait with target 2 has returned; the handler has counted the first
\* firing, has re-armed and is about to return
C14_Witness ==
    /\ HandlerReturns /\ waiting /\ waitTotal = U64FromNat(2)
    /\ sleepOrWaitCount = U64FromNat(1) /\ InterruptMode

\* Sleep has armed the interrupt (line 109, interrupts enabled again) and has
\* not yet reset Cycle Counter (line 122)
SleepArmedBeforeReset ==
    /\ pc \in {"S112", "S122"}
    /\ cfg["fg"].pc \in {"C83", "none"}

\* C15 as stated: Sleep, as Wait (lines 161, 164), resets Cycle Counter before
\* it arms the interrupt, so the handler never counts a firing between the
\* arming of the sequence and the reset of the counter, which would wipe it.
C15_CounterResetBeforeArming ==
    [][ I193 => ~SleepArmedBeforeReset ]_vars

\* the foreground is about to execute a statement that writes Cycle Counter or
\* Target Cycle Count, or that reads Cycle Counter
AccessesShared ==
    /\ pc \in {"S122", "S124", "W161", "W162", "R178", "R185"}
    /\ cfg["fg"].pc = "none" /\ isr = "off"

\* C16 as stated: the foreground accesses Cycle Counter and Target Cycle Count
\* with interrupts disabled.
C16_SharedAccessWithInterruptsDisabled ==
    AccessesShared => ~iflag

\* what Configure(m) is to leave in the hardware
Configured(m) ==
    /\ IF m THEN InterruptMode ELSE ResetMode
    /\ wdp = wdto % 16
    /\ wde /\ ~wdrf /\ ~due

\* C17 as stated: when Configure(m) returns, the Operating Mode is the one m
\* asks for, the programmed time-out is Current Step, the watchdog is enabled,
\* WDRF is clear and the countdown has restarted; no step of Configure changes
\* Cycle Counter, Target Cycle Count or Current Step.
C17_ConfigurePostcondition ==
    [][ \A c \in {"fg", "isr"} :
            /\ (C83(c) /\ cfg[c].mode) => Configured(TRUE)'
            /\ (C83(c) /\ ~cfg[c].mode) => Configured(FALSE)'
            /\ ConfigureStep(c) => UNCHANGED << sleepOrWaitCount, waitTotal, wdto >>
      ]_vars

\* C18 as stated (safety part): after a Wait with a non-zero target that was
\* called while an earlier Wait was in flight has returned, Cycle Counter does
\* not pass the target, and the handler that finds Cycle Counter equal to the
\* target leaves the hardware in Reset Mode.
C18_WaitDuringWaitCompletes ==
    (waiting /\ waitCalledIn = "inflight" /\ isr = "off" /\ waitTotal # U64Zero) =>
        /\ ~U64Lt(waitTotal, sleepOrWaitCount)
        /\ sleepOrWaitCount = waitTotal => ResetMode

\* a Wait that was called with WDIE clear (watchdog off or in Reset Mode) has
\* stored a non-zero target, and no other call was made since
QuietWaitStarted ==
    /\ waitCalledIn = "quiet" /\ waitTotal # U64Zero
    /\ waiting \/ pc \in {"W164", "W165"}

\* that Wait has returned and the handler is not executing
QuietWaitReturned ==
    QuietWaitStarted /\ waiting /\ isr = "off"

\* C19: for a Wait with target T >= 1 called with the watchdog off or in Reset
\* Mode, until the next call: Cycle Counter <= T always; once Cycle Counter = T
\* and the handler has returned, the Operating Mode is Reset Mode, the handler
\* is not entered again and Cycle Counter, Target Cycle Count and the mode do
\* not change; and the handler does count up to T.
C19_QuietWaitCountsToTarget ==
    /\ [](QuietWaitStarted => ~U64Lt(waitTotal, sleepOrWaitCount))
    /\ []((QuietWaitReturned /\ sleepOrWaitCount = waitTotal) => ResetMode)
    /\ [][ (QuietWaitReturned /\ sleepOrWaitCount = waitTotal /\ waiting') =>
               (isr' = "off" /\ UNCHANGED << sleepOrWaitCount, waitTotal, wde, wdie >>)
         ]_vars
    /\ (QuietWaitReturned /\ TargetWithinBound)
           ~> (sleepOrWaitCount = waitTotal \/ ~waiting)

\* Wait(16) with the 8s step, called with the watchdog off, has counted its two
\* periods
C19_Witness ==
    /\ QuietWaitReturned /\ wdto = WDTO_8S /\ waitTotal = U64FromNat(2)
    /\ sleepOrWaitCount = U64FromNat(2) /\ ResetMode

====
